---------------------------- MODULE Spec2Model ----------------------------
(***************************************************************************)
(* Indicator/signal engine of streamlit-app.py: get_trading_signals        *)
(* (rolling means, RSI, MACD, signal line, threshold classifier) and the   *)
(* empty-history guard of get_stock_data.                                  *)
(*                                                                         *)
(* Numbers.  pandas computes in float64; the model computes the same       *)
(* formulas exactly.  Rolling means and RSI are fractions n/d, with the    *)
(* two IEEE specials the code can produce (NaN, +inf) as tagged values.    *)
(* The exponential averages are exact too: every EMA value at index i of   *)
(* an n-point series is a multiple of 1/1755^(n-1) (1755 = 13*27*5, the    *)
(* denominators of alpha = 2/13, 2/27, 2/10), so it is held as the integer *)
(* value * 1755^(n-1), written in radix Radix because it outgrows 32 bits. *)
(***************************************************************************)
EXTENDS Integers, Sequences, FiniteSets, TLC

VARIABLES hist, pc, fetched, result

vars == <<hist, pc, fetched, result>>

---------------------------------------------------------------------------
(* Bounds of the explored inputs *)

\* longest close series explored
MaxLen == 200
\* every length up to ShortLen is explored
ShortLen == 22

(* Program constants *)
MA20_WINDOW == 20
MA50_WINDOW == 50
MA200_WINDOW == 200
RSI_WINDOW == 14
EXP1_SPAN == 12
EXP2_SPAN == 26
SIGNAL_SPAN == 9
RSI_OVERBOUGHT == 70
RSI_OVERSOLD == 30
HUNDRED == 100

---------------------------------------------------------------------------
(* Loops.  A loop "for i = lo..hi: st := Step(st, i)" is written as an     *)
(* operator XRange(..., lo, hi, st) that runs the lower half of the range  *)
(* and then the upper half.  TLC evaluates operator arguments lazily; the  *)
(* test on the lower half's result forces it before the upper half starts, *)
(* which keeps the evaluation depth logarithmic in hi - lo.  Every loop    *)
(* state is a tuple.                                                       *)

\* a function on 1..n as a sequence value
Tup(f) == f \o <<>>

---------------------------------------------------------------------------
(* float64 values of the rolling/RSI columns: a fraction n/d (d > 0), NaN  *)
(* or +inf.                                                                *)

NaN == [k |-> "nan", n |-> 0, d |-> 1]
Inf == [k |-> "inf", n |-> 0, d |-> 1]
Num(a, b) == [k |-> "num", n |-> a, d |-> b]
FromInt(a) == Num(a, 1)
IsNaN(x) == x.k = "nan"
IsNum(x) == x.k = "num"

\* x + y
RAdd(x, y) ==
    IF IsNaN(x) \/ IsNaN(y) THEN NaN
    ELSE IF x.k = "inf" \/ y.k = "inf" THEN Inf
    ELSE Num(x.n * y.d + y.n * x.d, x.d * y.d)

\* -x (never applied to inf here: the negated series holds deltas)
RNeg(x) == IF IsNum(x) THEN Num(0 - x.n, x.d) ELSE x

\* x - y
RSub(x, y) ==
    IF IsNaN(x) \/ IsNaN(y) THEN NaN
    ELSE IF y.k = "inf" THEN NaN
    ELSE IF x.k = "inf" THEN Inf
    ELSE Num(x.n * y.d - y.n * x.d, x.d * y.d)

\* x / y as float64 divides: x/0 is +inf for x > 0 and NaN for x = 0, with
\* no exception; finite/inf is 0.  Divisors here are never negative.
RDiv(x, y) ==
    IF IsNaN(x) \/ IsNaN(y) THEN NaN
    ELSE IF y.k = "inf" THEN (IF x.k = "inf" THEN NaN ELSE FromInt(0))
    ELSE IF x.k = "inf" THEN Inf
    ELSE IF y.n = 0 THEN (IF x.n > 0 THEN Inf ELSE NaN)
    ELSE Num(x.n * y.d, x.d * y.n)

\* x > y; any comparison with NaN is False
RGt(x, y) ==
    IF IsNaN(x) \/ IsNaN(y) THEN FALSE
    ELSE IF x.k = "inf" THEN y.k # "inf"
    ELSE IF y.k = "inf" THEN FALSE
    ELSE x.n * y.d > y.n * x.d

\* x < y
RLt(x, y) == RGt(y, x)

---------------------------------------------------------------------------
(* Exact integers in radix Radix, little-endian: digits in 0..Radix-1      *)
(* followed by one top limb that carries the sign and any excess.          *)

Radix == 1000 * 1000

\* limbs that hold every EMA value of an n-point series times 1755^(n-1)
Width(n) == (13 * n) \div 24 + 2

CarryStep(v, st, i) ==
    <<(v[i] + st[1]) \div Radix, Append(st[2], (v[i] + st[1]) % Radix)>>

RECURSIVE CarryRange(_, _, _, _)
CarryRange(v, lo, hi, st) ==
    IF lo > hi THEN st
    ELSE IF lo = hi THEN CarryStep(v, st, lo)
    ELSE LET left == CarryRange(v, lo, (lo + hi) \div 2, st)
         IN IF Len(left) >= 0 THEN CarryRange(v, (lo + hi) \div 2 + 1, hi, left) ELSE left

\* the canonical form of the limb-wise value f
Carry(f) ==
    LET v == Tup(f)
        st == CarryRange(v, 1, Len(v) - 1, <<0, <<>>>>)
    IN Append(st[2], v[Len(v)] + st[1])

DivStep(v, k, st, i) ==
    LET cur == st[1] * Radix + v[Len(v) + 1 - i]
    IN <<cur % k, <<cur \div k>> \o st[2]>>

RECURSIVE DivRange(_, _, _, _, _)
DivRange(v, k, lo, hi, st) ==
    IF lo > hi THEN st
    ELSE IF lo = hi THEN DivStep(v, k, st, lo)
    ELSE LET left == DivRange(v, k, lo, (lo + hi) \div 2, st)
         IN IF Len(left) >= 0 THEN DivRange(v, k, (lo + hi) \div 2 + 1, hi, left) ELSE left

\* v / k for a small k > 0 dividing v (long division from the top limb down)
BigDiv(v, k) == DivRange(v, k, 1, Len(v), <<0, <<>>>>)[2]

\* k * v for a small k
BigMul(v, k) == Carry([j \in 1..Len(v) |-> k * v[j]])

\* v - w
BigSub(v, w) == Carry([j \in 1..Len(v) |-> v[j] - w[j]])

BigInt(c, width) == Tup([j \in 1..width + 1 |-> IF j = 1 THEN c ELSE 0])

BigIsZero(v) == \A j \in 1..Len(v) : v[j] = 0

\* v > w
BigGt(v, w) ==
    LET dif == BigSub(v, w)
    IN dif[Len(dif)] >= 0 /\ ~BigIsZero(dif)

RECURSIVE BigPower(_, _, _)
\* v * k^e
BigPower(v, k, e) ==
    IF e <= 0 THEN v
    ELSE IF e = 1 THEN BigMul(v, k)
    ELSE LET half == BigPower(v, k, e \div 2)
         IN IF Len(half) >= 0 THEN BigPower(half, k, e - e \div 2) ELSE half

\* 1755^(n-1) for an n-point series
Scale(n) ==
    BigPower(BigInt(1, Width(n)),
             (EXP1_SPAN + 1) * (EXP2_SPAN + 1) * ((SIGNAL_SPAN + 1) \div 2), n - 1)

---------------------------------------------------------------------------
(* pandas Series operations used by get_trading_signals *)

\* Series.diff(): NaN at the first position, then s[i] - s[i-1]
Diff(s) == Tup([i \in 1..Len(s) |-> IF i = 1 THEN NaN ELSE RSub(s[i], s[i - 1])])

\* the boolean Series s > c and s < c; a NaN entry compares False
SeriesGt(s, c) == Tup([i \in 1..Len(s) |-> RGt(s[i], c)])
SeriesLt(s, c) == Tup([i \in 1..Len(s) |-> RLt(s[i], c)])

\* Series.where(cond, other): keeps s[i] where cond[i] is True, other
\* elsewhere
Where(s, cond, other) == Tup([i \in 1..Len(s) |-> IF cond[i] THEN s[i] ELSE other])

\* unary minus on a Series
Neg(s) == Tup([i \in 1..Len(s) |-> RNeg(s[i])])

\* RollStep with min_periods=1: a mean is emitted as soon as one observation
\* is in the window.
RollStepMinPeriodsOne(s, w, st, i) ==
    LET addSum == IF IsNaN(s[i]) THEN st[1] ELSE RAdd(st[1], s[i])
        addObs == IF IsNaN(s[i]) THEN st[2] ELSE st[2] + 1
        leaves == i > w /\ ~IsNaN(s[i - w])
        total == IF leaves THEN RSub(addSum, s[i - w]) ELSE addSum
        nobs == IF leaves THEN addObs - 1 ELSE addObs
    IN <<total, nobs,
         Append(st[3], IF nobs >= 1 THEN RDiv(total, FromInt(nobs)) ELSE NaN)>>

\* One step of the sliding window of rolling(window=w).mean(): the entering
\* observation is added, the one leaving the window is removed, NaN
\* observations are not counted, and the mean is emitted only when w
\* observations are in the window (min_periods defaults to the window).
RollStep(s, w, st, i) ==
    LET addSum == IF IsNaN(s[i]) THEN st[1] ELSE RAdd(st[1], s[i])
        addObs == IF IsNaN(s[i]) THEN st[2] ELSE st[2] + 1
        leaves == i > w /\ ~IsNaN(s[i - w])
        total == IF leaves THEN RSub(addSum, s[i - w]) ELSE addSum
        nobs == IF leaves THEN addObs - 1 ELSE addObs
    IN <<total, nobs,
         Append(st[3], IF nobs >= w THEN RDiv(total, FromInt(nobs)) ELSE NaN)>>

RECURSIVE RollRange(_, _, _, _, _)
RollRange(s, w, lo, hi, st) ==
    IF lo > hi THEN st
    ELSE IF lo = hi THEN RollStep(s, w, st, lo)
    ELSE LET left == RollRange(s, w, lo, (lo + hi) \div 2, st)
         IN IF Len(left) >= 0 THEN RollRange(s, w, (lo + hi) \div 2 + 1, hi, left) ELSE left

\* Series.rolling(window=w).mean()
Rolling(s, w) == RollRange(s, w, 1, Len(s), <<FromInt(0), 0, <<>>>>)[3]

\* alpha*x + (1-alpha)*prev with alpha = 2/(span+1), i.e.
\* (2*x + (span-1)*prev) / (span+1)
EwmNext(x, prev, span) ==
    BigDiv(Carry([j \in 1..Len(x) |-> 2 * x[j] + (span - 1) * prev[j]]), span + 1)

\* EwmStep seeded with zero instead of the first observation.
EwmStepZeroSeed(s, span, acc, i) ==
    IF i = 1 THEN <<EwmNext(s[1], BigInt(0, Len(s[1]) - 1), span)>>
    ELSE Append(acc, EwmNext(s[i], acc[i - 1], span))

\* One step of ewm(span, adjust=False).mean(): y[1] = x[1],
\* y[i] = alpha*x[i] + (1-alpha)*y[i-1].
EwmStep(s, span, acc, i) ==
    IF i = 1 THEN <<s[1]>>
    ELSE Append(acc, EwmNext(s[i], acc[i - 1], span))

RECURSIVE EwmRange(_, _, _, _, _)
EwmRange(s, span, lo, hi, acc) ==
    IF lo > hi THEN acc
    ELSE IF lo = hi THEN EwmStep(s, span, acc, lo)
    ELSE LET left == EwmRange(s, span, lo, (lo + hi) \div 2, acc)
         IN IF Len(left) >= 0 THEN EwmRange(s, span, (lo + hi) \div 2 + 1, hi, left) ELSE left

\* Series.ewm(span=span, adjust=False).mean()
Ewm(s, span) == EwmRange(s, span, 1, Len(s), <<>>)

---------------------------------------------------------------------------
(* get_trading_signals *)

\* RsiValue without the "1 +": 100 - (100 / rs)
RsiValueNoOne(gain, loss) ==
    RSub(FromInt(HUNDRED), RDiv(FromInt(HUNDRED), RDiv(gain, loss)))

\* rs = gain / loss; RSI = 100 - (100 / (1 + rs))
RsiValue(gain, loss) ==
    RSub(FromInt(HUNDRED), RDiv(FromInt(HUNDRED), RAdd(FromInt(1), RDiv(gain, loss))))

\* the six derived columns of df
Indicators(hist_data) ==
    LET n == Len(hist_data)
        close == Tup([i \in 1..n |-> FromInt(hist_data[i])])
        delta == Diff(close)
        gain == Rolling(Where(delta, SeriesGt(delta, FromInt(0)), FromInt(0)), RSI_WINDOW)
        loss == Rolling(Neg(Where(delta, SeriesLt(delta, FromInt(0)), FromInt(0))), RSI_WINDOW)
        one == Scale(n)
        scaled == Tup([i \in 1..n |-> BigMul(one, hist_data[i])])
        exp1 == Ewm(scaled, EXP1_SPAN)
        exp2 == Ewm(scaled, EXP2_SPAN)
        macd == Tup([i \in 1..n |-> BigSub(exp1[i], exp2[i])])
    IN [MA20 |-> Rolling(close, MA20_WINDOW),
        MA50 |-> Rolling(close, MA50_WINDOW),
        MA200 |-> Rolling(close, MA200_WINDOW),
        RSI |-> Tup([i \in 1..n |-> RsiValue(gain[i], loss[i])]),
        MACD |-> macd,
        Signal_Line |-> Ewm(macd, SIGNAL_SPAN)]

\* Series.iloc[-1] raises IndexError on an empty Series
IlocRaises(s) == Len(s) = 0

\* TrendSignal with "or" for "and"
TrendSignalOr(current_price, ma20, ma50) ==
    IF RGt(current_price, ma20) \/ RGt(current_price, ma50)
    THEN <<"Bullish", "Price above moving averages">>
    ELSE <<"Bearish", "Price below moving averages">>

\* if current_price > ma20 and current_price > ma50
TrendSignal(current_price, ma20, ma50) ==
    IF RGt(current_price, ma20) /\ RGt(current_price, ma50)
    THEN <<"Bullish", "Price above moving averages">>
    ELSE <<"Bearish", "Price below moving averages">>

\* MomentumSignal with >= 70 and <= 30
MomentumSignalInclusive(rsi) ==
    IF ~RLt(rsi, FromInt(RSI_OVERBOUGHT)) /\ ~IsNaN(rsi) THEN << <<"Overbought", "RSI">> >>
    ELSE IF ~RGt(rsi, FromInt(RSI_OVERSOLD)) /\ ~IsNaN(rsi) THEN << <<"Oversold", "RSI">> >>
    ELSE <<>>

\* if rsi > 70 ... elif rsi < 30 ...: zero or one entry (the description's
\* formatted number is left out)
MomentumSignal(rsi) ==
    IF RGt(rsi, FromInt(RSI_OVERBOUGHT)) THEN << <<"Overbought", "RSI">> >>
    ELSE IF RLt(rsi, FromInt(RSI_OVERSOLD)) THEN << <<"Oversold", "RSI">> >>
    ELSE <<>>

\* MacdSignal with >= for >
MacdSignalGe(macd, signal_line) ==
    IF ~BigGt(signal_line, macd)
    THEN <<"MACD Bullish", "MACD above signal line">>
    ELSE <<"MACD Bearish", "MACD below signal line">>

\* if macd > signal_line
MacdSignal(macd, signal_line) ==
    IF BigGt(macd, signal_line)
    THEN <<"MACD Bullish", "MACD above signal line">>
    ELSE <<"MACD Bearish", "MACD below signal line">>

NoColumns ==
    [MA20 |-> <<>>, MA50 |-> <<>>, MA200 |-> <<>>, RSI |-> <<>>,
     MACD |-> <<>>, Signal_Line |-> <<>>]

Pending == [outcome |-> "pending", signals |-> <<>>, df |-> NoColumns]

\* the three rules applied to the last row, and the return statement
Signals(hist_data, df) ==
    LET n == Len(hist_data)
    IN [outcome |-> "returned",
        signals |-> <<TrendSignal(FromInt(hist_data[n]), df.MA20[n], df.MA50[n])>>
                    \o MomentumSignal(df.RSI[n])
                    \o <<MacdSignal(df.MACD[n], df.Signal_Line[n])>>,
        df |-> df]

\* GenerateSignals with an early return of no signals for an empty frame
GenerateSignalsEmptyReturns(hist_data, df) ==
    IF Len(hist_data) = 0
    THEN [outcome |-> "returned", signals |-> <<>>, df |-> df]
    ELSE Signals(hist_data, df)

\* "Generate signals": the first read, df['Close'].iloc[-1], raises
\* IndexError on an empty frame and nothing is returned.
GenerateSignals(hist_data, df) ==
    IF IlocRaises(hist_data)
    THEN [outcome |-> "IndexError", signals |-> <<>>, df |-> NoColumns]
    ELSE Signals(hist_data, df)

\* The call get_trading_signals(hist_data): what it returns, or the
\* exception that leaves it.
get_trading_signals(hist_data) == GenerateSignals(hist_data, Indicators(hist_data))

---------------------------------------------------------------------------
(* get_stock_data *)

NotFetched == [hist |-> "unset", info |-> "unset", error |-> "unset"]

\* (hist, info, None), (None, None, None) for an empty history, or
\* (None, None, str(e)) when the download raises
get_stock_data(history, raises) ==
    IF raises THEN [hist |-> "None", info |-> "None", error |-> "str(e)"]
    ELSE IF Len(history) = 0 THEN [hist |-> "None", info |-> "None", error |-> "None"]
    ELSE [hist |-> "hist", info |-> "info", error |-> "None"]

---------------------------------------------------------------------------
(* The close series explored.  A pattern starts at price p0 and moves by   *)
(* d1 per step for n1 steps, then by d2 per step for n2 steps, and         *)
(* repeats.                                                                *)

Pattern(p0, d1, n1, d2, n2) == [p0 |-> p0, d1 |-> d1, n1 |-> n1, d2 |-> d2, n2 |-> n2]

Patterns ==
    { Pattern(10, 0, 1, 0, 1),        \* constant
      Pattern(0, 0, 1, 0, 1),         \* constant at zero
      Pattern(10, 1, 1, 1, 1),        \* strictly increasing
      Pattern(60, -1, 1, -1, 1),      \* strictly decreasing
      Pattern(10, 7, 1, -3, 1),       \* RSI settles at exactly 70
      Pattern(130, 3, 1, -7, 1),      \* RSI settles at exactly 30
      Pattern(10, 1, 1, -1, 1),       \* RSI 50
      Pattern(10, 3, 1, -1, 1),       \* RSI 75
      Pattern(70, 1, 1, -3, 1),       \* RSI 25
      Pattern(50, -1, 40, 1, 40),     \* falls 40 steps, rises 40 steps
      Pattern(10, 1, 40, -1, 40),     \* rises 40 steps, falls 40 steps
      Pattern(10, 1, 1, 0, MaxLen) }  \* one rise, then constant

\* the price change of step j (from point j to point j+1)
StepDelta(p, j) == IF (j - 1) % (p.n1 + p.n2) < p.n1 THEN p.d1 ELSE p.d2

RECURSIVE SeriesRange(_, _, _, _)
SeriesRange(p, lo, hi, acc) ==
    IF lo > hi THEN acc
    ELSE IF lo = hi
         THEN Append(acc, IF lo = 1 THEN p.p0 ELSE acc[lo - 1] + StepDelta(p, lo - 1))
    ELSE LET left == SeriesRange(p, lo, (lo + hi) \div 2, acc)
         IN IF Len(left) >= 0 THEN SeriesRange(p, (lo + hi) \div 2 + 1, hi, left) ELSE left

\* the first n points of pattern p
Series(p, n) == SeriesRange(p, 1, n, <<>>)

Lens ==
    {n \in 0..MaxLen : \/ n <= ShortLen
                       \/ (n >= MA50_WINDOW - 1 /\ n <= MA50_WINDOW + 1)
                       \/ n >= MaxLen - 1}

\* prices are non-negative
Valid(s) == \A i \in 1..Len(s) : s[i] >= 0

Inputs == {s \in {Series(p, n) : p \in Patterns, n \in Lens} : Valid(s)}

---------------------------------------------------------------------------
(* One request: either function is applied once to the history. *)

Init ==
    /\ hist \in Inputs
    /\ pc = "ready"
    /\ fetched = NotFetched
    /\ result = Pending

GetStockData ==
    /\ pc = "ready"
    /\ \E raises \in BOOLEAN : fetched' = get_stock_data(hist, raises)
    /\ pc' = "done"
    /\ UNCHANGED <<hist, result>>

GetTradingSignals ==
    /\ pc = "ready"
    /\ result' = get_trading_signals(hist)
    /\ pc' = "done"
    /\ UNCHANGED <<hist, fetched>>

Next == GetStockData \/ GetTradingSignals

Spec == Init /\ [][Next]_vars

---------------------------------------------------------------------------
(* Vocabulary of the properties *)

\* get_trading_signals has been applied to hist
Called == pc = "done" /\ result.outcome # "pending"

Returned == Called /\ result.outcome = "returned"

\* the labels of the returned signals, in order
Labels == [i \in 1..Len(result.signals) |-> result.signals[i][1]]

\* the entries between the trend signal and the MACD signal
MomentumLabels == [i \in 1..Len(result.signals) - 2 |-> result.signals[i + 1][1]]

RECURSIVE SumOf(_, _, _)
\* s[lo] + ... + s[hi]
SumOf(s, lo, hi) ==
    IF lo > hi THEN 0
    ELSE IF lo = hi THEN s[lo]
    ELSE SumOf(s, lo, (lo + hi) \div 2) + SumOf(s, (lo + hi) \div 2 + 1, hi)

\* v > w for two canonical integers of the same width: the highest limb in
\* which they differ decides
Above(v, w) ==
    \E j \in 1..Len(v) : v[j] > w[j] /\ \A m \in j + 1..Len(v) : v[m] = w[m]

Constant(s) == \A i \in 1..Len(s) : s[i] = s[1]

\* a rolling/RSI entry holds a number
Defined(x) == x.k = "num"

\* step j of s (from point j to point j+1) is a fall
Falls(s, j) == s[j + 1] < s[j]
Rises(s, j) == s[j + 1] > s[j]

---------------------------------------------------------------------------
(* C1: for every non-empty close series get_trading_signals returns, and   *)
(* the signal list is one trend signal (Bullish or Bearish), then zero or  *)
(* one momentum signal (Overbought or Oversold), then one MACD signal,     *)
(* which is "MACD Bullish" iff the last MACD value is strictly above the   *)
(* last Signal_Line value and "MACD Bearish" otherwise; so 2 or 3 entries. *)
C1_SignalListShape ==
    (Called /\ Len(hist) > 0) =>
        /\ result.outcome = "returned"
        /\ Len(result.signals) \in {2, 3}
        /\ Labels[1] \in {"Bullish", "Bearish"}
        /\ \A i \in 1..Len(MomentumLabels) : MomentumLabels[i] \in {"Overbought", "Oversold"}
        /\ Labels[Len(Labels)] =
             IF Above(result.df.MACD[Len(hist)], result.df.Signal_Line[Len(hist)])
             THEN "MACD Bullish" ELSE "MACD Bearish"

\* a three-entry list ending in MACD Bullish while MA50 is undefined
C1_Witness ==
    /\ Returned
    /\ Len(hist) < MA50_WINDOW
    /\ Len(result.signals) = 3
    /\ Labels[3] = "MACD Bullish"

(* C2: the trend signal is "Bullish" iff the last close is strictly above  *)
(* the mean of the last 20 closes and strictly above the mean of the last  *)
(* 50 closes, both existing; in every other case (equality, fewer than 20  *)
(* or 50 points) it is "Bearish".                                          *)
C2_TrendRule ==
    Returned =>
        LET n == Len(hist)
            above == /\ n >= MA50_WINDOW
                     /\ MA20_WINDOW * hist[n] > SumOf(hist, n - MA20_WINDOW + 1, n)
                     /\ MA50_WINDOW * hist[n] > SumOf(hist, n - MA50_WINDOW + 1, n)
        IN Labels[1] = IF above THEN "Bullish" ELSE "Bearish"

\* Bearish with both averages defined and the close above MA20 only
C2_Witness ==
    /\ Returned
    /\ Len(hist) >= MA50_WINDOW
    /\ Labels[1] = "Bearish"
    /\ MA20_WINDOW * hist[Len(hist)] > SumOf(hist, Len(hist) - MA20_WINDOW + 1, Len(hist))

(* C3: the momentum slot holds "Overbought" iff the last RSI is strictly    *)
(* above 70, "Oversold" iff it is strictly below 30, and nothing when the   *)
(* last RSI is in [30, 70] (30 and 70 included) or undefined; never both.   *)
C3_MomentumRule ==
    Returned =>
        LET rsi == result.df.RSI[Len(hist)]
        IN MomentumLabels =
             IF Defined(rsi) /\ rsi.n > RSI_OVERBOUGHT * rsi.d THEN <<"Overbought">>
             ELSE IF Defined(rsi) /\ rsi.n < RSI_OVERSOLD * rsi.d THEN <<"Oversold">>
             ELSE <<>>

\* the last RSI is exactly 70 and the slot is empty
C3_Witness ==
    /\ Returned
    /\ Defined(result.df.RSI[Len(hist)])
    /\ result.df.RSI[Len(hist)].n = RSI_OVERBOUGHT * result.df.RSI[Len(hist)].d
    /\ Len(result.signals) = 2

\* column col is the w-point moving average of hist
IsMovingAverage(col, w) ==
    /\ Len(col) = Len(hist)
    /\ \A i \in 1..Len(hist) :
          IF i >= w
          THEN Defined(col[i]) /\ col[i].d > 0
               /\ w * col[i].n = col[i].d * SumOf(hist, i - w + 1, i)
          ELSE IsNaN(col[i])

(* C4: for w in {20, 50, 200} the column MAw is defined at the i-th point   *)
(* (counting from 1) iff i >= w, where it equals the arithmetic mean of    *)
(* the w closes ending there; a series shorter than w has no defined MAw.  *)
C4_MovingAverages ==
    Returned =>
        /\ IsMovingAverage(result.df.MA20, MA20_WINDOW)
        /\ IsMovingAverage(result.df.MA50, MA50_WINDOW)
        /\ IsMovingAverage(result.df.MA200, MA200_WINDOW)

\* MA200 defined at the last point of a series that is not constant
C4_Witness ==
    /\ Returned
    /\ Len(hist) >= MA200_WINDOW
    /\ Defined(result.df.MA200[Len(hist)])
    /\ ~Constant(hist)

(* C5: whenever the 14-point average loss at a point is 0 (no fall among   *)
(* the 14 price changes ending there), RSI there is exactly 100, also when *)
(* the average gain is 0 as well (a flat window).                          *)
C5_ZeroLossSaturates ==
    Returned =>
        \A i \in RSI_WINDOW + 1..Len(hist) :
            (\A j \in i - RSI_WINDOW..i - 1 : ~Falls(hist, j)) =>
                /\ Defined(result.df.RSI[i])
                /\ result.df.RSI[i].n = HUNDRED * result.df.RSI[i].d

NoHoles(col) ==
    \A i \in 1..Len(col) : \A j \in i + 1..Len(col) : Defined(col[i]) => Defined(col[j])

(* C7: in each derived series (MA20, MA50, MA200, RSI, MACD, Signal_Line)  *)
(* a defined entry is followed only by defined entries; MACD and           *)
(* Signal_Line hold a value at every point.                                *)
C7_NoHolesAfterWarmUp ==
    Returned =>
        /\ NoHoles(result.df.MA20)
        /\ NoHoles(result.df.MA50)
        /\ NoHoles(result.df.MA200)
        /\ NoHoles(result.df.RSI)
        /\ Len(result.df.MACD) = Len(hist)
        /\ Len(result.df.Signal_Line) = Len(hist)

(* C8: every defined RSI entry lies in [0, 100] (and no entry is infinite). *)
C8_RsiRange ==
    Returned =>
        \A i \in 1..Len(hist) :
            LET rsi == result.df.RSI[i]
            IN /\ Defined(rsi) \/ IsNaN(rsi)
               /\ Defined(rsi) => /\ rsi.d > 0
                                  /\ 0 <= rsi.n
                                  /\ rsi.n <= HUNDRED * rsi.d

\* an RSI entry strictly inside the range
C8_Witness ==
    /\ Returned
    /\ \E i \in 1..Len(hist) :
          /\ Defined(result.df.RSI[i])
          /\ 0 < result.df.RSI[i].n
          /\ result.df.RSI[i].n < HUNDRED * result.df.RSI[i].d

(* C9: RSI is undefined at each of the first 14 points (one has no price   *)
(* change, the others fewer than 14), and at the 15th point it is computed *)
(* from exactly the 14 price changes up to it.                             *)
C9_RsiWarmUp ==
    Returned =>
        /\ \A i \in 1..Len(hist) : i <= RSI_WINDOW => IsNaN(result.df.RSI[i])
        /\ Len(hist) > RSI_WINDOW =>
             LET up == SumOf([j \in 1..RSI_WINDOW |->
                               IF Rises(hist, j) THEN hist[j + 1] - hist[j] ELSE 0], 1, RSI_WINDOW)
                 down == SumOf([j \in 1..RSI_WINDOW |->
                                 IF Falls(hist, j) THEN hist[j] - hist[j + 1] ELSE 0], 1, RSI_WINDOW)
                 rsi == result.df.RSI[RSI_WINDOW + 1]
             IN up + down > 0 => /\ Defined(rsi)
                                 /\ rsi.n * (up + down) = HUNDRED * up * rsi.d

(* C10: for a constant close series of at least 50 points MACD and         *)
(* Signal_Line are 0 at every point, the trend signal is "Bearish" and the *)
(* MACD signal is "MACD Bearish".                                          *)
C10_ConstantSeries ==
    (Called /\ Len(hist) >= MA50_WINDOW /\ Constant(hist)) =>
        /\ result.outcome = "returned"
        /\ \A i \in 1..Len(hist) : /\ BigIsZero(result.df.MACD[i])
                                  /\ BigIsZero(result.df.Signal_Line[i])
        /\ Labels[1] = "Bearish"
        /\ Labels[Len(Labels)] = "MACD Bearish"

\* a constant series of 50 or more points at a non-zero price was analysed
C10_Witness ==
    /\ Returned
    /\ Len(hist) >= MA50_WINDOW
    /\ Constant(hist)
    /\ hist[1] > 0

===========================================================================
